---- MODULE Spec2Model ----
(***************************************************************************)
(* The weather sample of aspire-with-node: the Node frontend handler       *)
(* app.get('/') with its cache-aside lookup in Redis and its retry loop    *)
(* fetchForecastsWithRetry, against the ASP.NET backend endpoint           *)
(* MapGet("/weatherforecast").                                             *)
(*                                                                         *)
(* Strings the code compares or concatenates (city names, cache keys) are  *)
(* sequences of one-character strings, so that the case-insensitive match  *)
(* of the backend and the case-preserving key of the frontend are both     *)
(* computed.  The city names of the model hold ASCII letters only, which   *)
(* encodeURIComponent and the query-string decoder leave unchanged.        *)
(***************************************************************************)
EXTENDS Integers, Sequences, FiniteSets, TLC

(***************************************************************************)
(* Bounds of the model.                                                    *)
(***************************************************************************)
\* number of provider calls the transport may fail (fetch or body read throws)
MaxNetFaults == 3
\* number of Redis commands that may raise
MaxCacheFaults == 1
\* the clock runs from 0 to MaxTime seconds, in steps of TickStep seconds
MaxTime == 32
TickStep == 16
\* random draws are taken from 0..MaxDraw
MaxDraw == 1
\* number of SIGINT and SIGTERM signals the process may receive
MaxSignals == 3

(***************************************************************************)
(* Program constants.                                                      *)
(***************************************************************************)
\* fetchForecastsWithRetry(city, 3)
maxRetries == 3
\* cache.set(..., { 'EX': 30 })
EX == 30
\* Enumerable.Range(1, 5)
ForecastDays == 5

(***************************************************************************)
(* State.                                                                  *)
(***************************************************************************)
VARIABLES
    now,                    \* the clock, in seconds
    cacheOn,                \* config.cacheUri is set: cache is a Redis client, not null
    store,                  \* the Redis keyspace: key -> [value, setAt, expires, writer]
    req,                    \* the requests to '/', each with its position and history
    cacheStats,             \* instrumentation.js: { hits, misses }
    forecastRequestCounter, \* weather.forecast.requests, by city tag
    cityRequestCounter,     \* weather.forecast.city.requests, by city tag
    netFaults,              \* transport failures so far
    cacheFaults,            \* Redis failures so far
    shutdown                \* the servers and the state of gracefulShutdown

vars == << now, cacheOn, store, req, cacheStats, forecastRequestCounter,
           cityRequestCounter, netFaults, cacheFaults, shutdown >>

\* what the handlers of the requests read and write
requestVars == << now, cacheOn, store, req, cacheStats, forecastRequestCounter,
                  cityRequestCounter, netFaults, cacheFaults >>

(***************************************************************************)
(* Strings.                                                                *)
(***************************************************************************)
UpperCase == <<"A","B","C","D","E","F","G","H","I","J","K","L","M",
               "N","O","P","Q","R","S","T","U","V","W","X","Y","Z">>
LowerCase == <<"a","b","c","d","e","f","g","h","i","j","k","l","m",
               "n","o","p","q","r","s","t","u","v","w","x","y","z">>

\* char.ToUpperInvariant on the ASCII letters; other characters are unchanged
ToUpperChar(ch) ==
    IF \E i \in 1..Len(LowerCase) : LowerCase[i] = ch
    THEN UpperCase[CHOOSE i \in 1..Len(LowerCase) : LowerCase[i] = ch]
    ELSE ch

ToUpper(s) == [i \in 1..Len(s) |-> ToUpperChar(s[i])]

\* c.Equals(city, StringComparison.OrdinalIgnoreCase)
EqualsOrdinalIgnoreCase(a, b) == ToUpper(a) = ToUpper(b)

Seattle == <<"S","e","a","t","t","l","e">>
Miami   == <<"M","i","a","m","i">>
Chicago == <<"C","h","i","c","a","g","o">>
Phoenix == <<"P","h","o","e","n","i","x">>
Boston  == <<"B","o","s","t","o","n">>

\* the value of req.query.city: absent (or empty), or a string
NoCity == << >>
QueryCities ==
    { NoCity,
      <<"s","e","a","t","t","l","e">>,
      <<"b","o","s","t","o","n">>,
      Phoenix,
      <<"P","a","r","i","s">> }

(***************************************************************************)
(* The backend: Program.cs.                                                *)
(***************************************************************************)
summaries ==
    << "Freezing", "Bracing", "Chilly", "Cool", "Mild",
       "Warm", "Balmy", "Hot", "Sweltering", "Scorching" >>

\* the dictionary, in insertion order
cities ==
    << [name |-> Seattle, MinTemp |-> -5,  MaxTemp |-> 25],
       [name |-> Miami,   MinTemp |-> 15,  MaxTemp |-> 35],
       [name |-> Chicago, MinTemp |-> -15, MaxTemp |-> 30],
       [name |-> Phoenix, MinTemp |-> 5,   MaxTemp |-> 45],
       [name |-> Boston,  MinTemp |-> -10, MaxTemp |-> 28] >>

\* a registry lookup that compares the names exactly
normalizedCityCaseSensitive(city) ==
    IF \E i \in 1..Len(cities) : cities[i].name = city THEN city ELSE Seattle

\* a registry lookup whose default is the last entry, not the first
normalizedCityDefaultsToLast(city) ==
    LET hits == { i \in 1..Len(cities) : EqualsOrdinalIgnoreCase(cities[i].name, city) }
    IN  IF hits = {} THEN cities[Len(cities)].name
        ELSE cities[CHOOSE i \in hits : \A j \in hits : i <= j].name

\* a registry lookup that falls back on another entry than Seattle
normalizedCityDefaultsToMiami(city) ==
    LET hits == { i \in 1..Len(cities) : EqualsOrdinalIgnoreCase(cities[i].name, city) }
    IN  IF hits = {} THEN Miami
        ELSE cities[CHOOSE i \in hits : \A j \in hits : i <= j].name

\* cities.Keys.FirstOrDefault(c => c.Equals(city, OrdinalIgnoreCase)) ?? "Seattle"
normalizedCity(city) ==
    LET hits == { i \in 1..Len(cities) : EqualsOrdinalIgnoreCase(cities[i].name, city) }
    IN  IF hits = {} THEN Seattle
        ELSE cities[CHOOSE i \in hits : \A j \in hits : i <= j].name

\* cities[normalizedCity]
CityRange(name) ==
    LET i == CHOOSE j \in 1..Len(cities) : cities[j].name = name
    IN  cities[i]

\* a quotient rounded down, which differs from (int) on the negative values
TruncDiv5556Floors(x) == (x * 10000) \div 5556

\* (int)(x / 0.5556) for an integer x: the quotient truncated toward zero
TruncDiv5556(x) ==
    IF x >= 0 THEN (x * 10000) \div 5556
    ELSE -(((-x) * 10000) \div 5556)

\* public int TemperatureF => 32 + (int)(TemperatureC / 0.5556)
TemperatureF(TemperatureC) == 32 + TruncDiv5556(TemperatureC)

\* Random.Shared.Next(minValue, maxValue): an integer of minValue..maxValue-1;
\* draw 0 is the least value, draw u > 0 the u-th from the top
RandomNext(minValue, maxValue, u) ==
    IF u = 0 THEN minValue
    ELSE IF maxValue - u > minValue THEN maxValue - u ELSE minValue

\* the draws of the five days of one response
DayDraw(u, index) == (u + index) % (MaxDraw + 1)

\* a forecast whose temperature is drawn with the upper bound included
WeatherForecastUpToMax(index, minTemp, maxTemp, name, u) ==
    [ Date         |-> index,
      TemperatureC |-> RandomNext(minTemp, maxTemp + 1, DayDraw(u, index)),
      Summary      |-> summaries[RandomNext(0, Len(summaries), DayDraw(u, index)) + 1],
      City         |-> name ]

\* new WeatherForecast(Date, TemperatureC, Summary, City), index = 1..5
WeatherForecast(index, minTemp, maxTemp, name, u) ==
    [ Date         |-> index,
      TemperatureC |-> RandomNext(minTemp, maxTemp, DayDraw(u, index)),
      Summary      |-> summaries[RandomNext(0, Len(summaries), DayDraw(u, index)) + 1],
      City         |-> name ]

\* the JSON text of the response: one member list per day, TemperatureF derived
Serialize(forecast) ==
    [ i \in 1..Len(forecast) |->
        << forecast[i].Date, forecast[i].TemperatureC, forecast[i].Summary,
           forecast[i].City, TemperatureF(forecast[i].TemperatureC) >> ]

\* "Weather service is currently unavailable for {normalizedCity}"
UnavailableText(name) == <<"Weather service is currently unavailable for ">> \o name

\* an endpoint that remembers: it refuses a city it has already served
ThrowsForOnceServed(name) ==
    \/ EqualsOrdinalIgnoreCase(name, Boston)
    \/ forecastRequestCounter[name] > 0

\* Does the endpoint throw for this city?
ThrowsFor(name) == EqualsOrdinalIgnoreCase(name, Boston)

\* app.MapGet("/weatherforecast", (string? city = null) => ...): the response to
\* GET /weatherforecast?city=<city>&attempt=<attempt> under draw u.  The lambda
\* binds city only: the attempt parameter of the query is not read.
WeatherForecastEndpoint(city, attempt, u) ==
    LET name  == normalizedCity(IF city = NoCity THEN Seattle ELSE city)  \* city ??= "Seattle"
        range == CityRange(name)
    IN  IF ThrowsFor(name)
        THEN [ status |-> 500,    \* the unhandled exception: 500 Internal Server Error
               counted |-> FALSE,
               city |-> name,
               body |-> UnavailableText(name) ]
        ELSE [ status |-> 200,
               counted |-> TRUE,
               city |-> name,
               body |-> Serialize([ index \in 1..ForecastDays |->
                            WeatherForecast(index, range.MinTemp, range.MaxTemp, name, u) ]) ]

Draws == 0..MaxDraw

\* const city = req.query.city || 'Seattle'
CityOf(query) == IF query = NoCity THEN Seattle ELSE query

\* the cities the frontend can name in a request to the backend
RequestCities == { CityOf(query) : query \in QueryCities }

\* the responses of the endpoint, computed once
Responses ==
    [ city \in RequestCities, attempt \in 1..maxRetries, u \in Draws |->
        WeatherForecastEndpoint(city, attempt, u) ]

(***************************************************************************)
(* The frontend: values.                                                   *)
(***************************************************************************)
\* a key built from the city with its case folded
cacheKeyIgnoresCase(city) == <<"forecasts:">> \o ToUpper(city)

\* const cacheKey = `forecasts:${city}`
cacheKey(city) == <<"forecasts:">> \o city

\* response.json() and JSON.parse: the array of objects a JSON text denotes
JSONparse(text) ==
    [ i \in 1..Len(text) |->
        [ date         |-> text[i][1],
          temperatureC |-> text[i][2],
          summary      |-> text[i][3],
          city         |-> text[i][4],
          temperatureF |-> text[i][5] ] ]

\* JSON.stringify of an array of forecast objects
JSONstringify(forecasts) ==
    [ i \in 1..Len(forecasts) |->
        << forecasts[i].date, forecasts[i].temperatureC, forecasts[i].summary,
           forecasts[i].city, forecasts[i].temperatureF >> ]

\* response.ok
Ok(response) == response.status >= 200 /\ response.status <= 299

NoError == [name |-> "", status |-> 0, text |-> << >>, attempt |-> 0]

\* new Error(`API returned ${response.status}: ${errorText}`), thrown in `attempt`
ApiError(status, errorText, attempt) ==
    [name |-> "Error", status |-> status, text |-> errorText, attempt |-> attempt]

\* what fetch(url), response.text() or response.json() throws in `attempt`
TransportError(fault, attempt) ==
    [ name    |-> IF fault = "fetch" THEN "TypeError" ELSE "BodyError",
      status  |-> 0,
      text    |-> IF fault = "fetch" THEN <<"fetch failed">> ELSE <<"body unreadable">>,
      attempt |-> attempt ]

\* what a Redis command throws
CacheError(command) ==
    [name |-> "RedisError", status |-> 0, text |-> <<command>>, attempt |-> 0]

\* Math.pow(2, attempt - 1) * 100, the delay after a non-ok response
DelayAfterNonOk(attempt) == (2 ^ (attempt - 1)) * 100

\* Math.pow(2, attempt - 1) * 1000, the delay in the catch block
DelayAfterException(attempt) == (2 ^ (attempt - 1)) * 1000

\* if (attempt === maxRetries)
IsLastAttempt(attempt) == attempt = maxRetries

\* a loop that retries without counting: attempt is not incremented
NextAttemptRepeats(attempt) == attempt

\* for (let attempt = 1; attempt <= maxRetries; attempt++)
NextAttempt(attempt) == attempt + 1

\* a failure page that shows the cause
FailureMessageWithCause(city, error) ==
    <<"Failed to fetch weather data for ">> \o city \o <<": ">> \o error.text

\* `Failed to fetch weather data for ${city}. Please try again later.`
FailureMessage(city, error) ==
    <<"Failed to fetch weather data for ">> \o city \o <<". Please try again later.">>

NoPage == [sent |-> FALSE, forecasts |-> << >>, city |-> NoCity, error |-> << >>]

\* res.render('index', { forecasts, city, error })
Page(forecasts, city, error) ==
    [sent |-> TRUE, forecasts |-> forecasts, city |-> city, error |-> error]

(***************************************************************************)
(* Requests.                                                               *)
(***************************************************************************)
\* two requests to '/', which may overlap in any way
Requests == {1, 2}

CityNames == { cities[i].name : i \in 1..Len(cities) }

NewRequest ==
    [ pc           |-> "new",      \* new, fetching, backoff, fetched, rendered, rejected
      query        |-> NoCity,     \* req.query.city
      city         |-> NoCity,     \* city
      arrivedAt    |-> 0,
      metBackoff   |-> {},         \* the requests that were in a backoff when it arrived
      lookup       |-> "none",     \* none, hit, miss, raised
      hitWriter    |-> 0,          \* on a hit: the request whose set wrote the entry
      hitSetAt     |-> 0,          \* on a hit: when the entry was written
      attempt      |-> 0,          \* the loop variable of fetchForecastsWithRetry
      calls        |-> << >>,      \* the attempt numbers passed to the provider
      outcomes     |-> << >>,      \* per attempt: [kind, error, u]
      waits        |-> << >>,      \* the delays waited, in ms
      spans        |-> << >>,      \* per attempt: [attempt, ends, error]
      fetchSuccess |-> << >>,      \* the attempts passed to recordFetchSuccess
      fetch        |-> "none",     \* none, running, returned, threw
      forecasts    |-> << >>,      \* what fetchForecastsWithRetry returned
      thrown       |-> NoError,    \* what the handler's try block threw
      sets         |-> 0,          \* cache.set commands that took effect
      setOrder     |-> 0,          \* the rank of its set among the sets of its key
      page         |-> NoPage ]    \* what res.render was given

\* the servers listen and no signal has arrived; httpsServer is null when
\* httpsOptions.enabled is false
Serving(httpsEnabled) ==
    [ isShuttingDown |-> FALSE,
      cleanupDone    |-> FALSE,
      httpServer     |-> "listening",     \* listening, closing, closed
      httpsServer    |-> IF httpsEnabled THEN "listening" ELSE "null",
      awaiting       |-> "nothing",       \* nothing, servers, disconnect
      signals        |-> << >>,           \* the signals received, in order
      runs           |-> 0,               \* times gracefulShutdown went past its guard
      disconnects    |-> 0,               \* calls of cache.disconnect()
      disconnectFailed |-> FALSE,         \* cache.disconnect() was rejected
      events         |-> << >>,           \* what was done, in order
      exited         |-> FALSE ]          \* process.exit(0) was called

\* The requests are followed in a process that receives no signal and serves
\* over HTTP only: no handler of a request reads the state of the shutdown.
Init ==
    /\ shutdown = Serving(FALSE)
    /\ now = 0
    /\ cacheOn \in BOOLEAN
    /\ store = << >>
    /\ req = [r \in Requests |-> NewRequest]
    /\ cacheStats = [hits |-> 0, misses |-> 0]
    /\ forecastRequestCounter = [c \in CityNames |-> 0]
    /\ cityRequestCounter = [c \in CityNames |-> 0]
    /\ netFaults = 0
    /\ cacheFaults = 0

(***************************************************************************)
(* Redis: GET, and SET with EX.                                            *)
(***************************************************************************)
\* an entry is served until its time to live has elapsed; nothing removes it
Live(entry) == now < entry.expires

\* await cache.get(cacheKey): the value, or null
RedisGet(key) ==
    IF key \in DOMAIN store /\ Live(store[key])
    THEN [found |-> TRUE, value |-> store[key].value,
          writer |-> store[key].writer, setAt |-> store[key].setAt]
    ELSE [found |-> FALSE, value |-> << >>, writer |-> 0, setAt |-> 0]

\* the test negated: if (!cachedForecasts)
TruthyNegated(reply) == ~(reply.found /\ reply.value # << >>)

\* if (cachedForecasts): null and the empty string are falsy
Truthy(reply) == reply.found /\ reply.value # << >>

\* a time to live taken in minutes
ExpiryInMinutes(seconds) == now + seconds * 60

\* the expiry of an entry written now with { 'EX': seconds }
Expiry(seconds) == now + seconds

\* a set that leaves a live entry alone (SET ... NX): the first write wins
RedisSetIfAbsent(key, value, seconds, r) ==
    IF key \in DOMAIN store /\ Live(store[key])
    THEN store
    ELSE [ k \in DOMAIN store \cup {key} |->
             IF k = key
             THEN [value |-> value, setAt |-> now, expires |-> Expiry(seconds), writer |-> r]
             ELSE store[k] ]

\* await cache.set(cacheKey, value, { 'EX': seconds }), issued by request r
RedisSet(key, value, seconds, r) ==
    [ k \in DOMAIN store \cup {key} |->
        IF k = key
        THEN [value |-> value, setAt |-> now, expires |-> Expiry(seconds), writer |-> r]
        ELSE store[k] ]

(***************************************************************************)
(* instrumentation.js                                                      *)
(***************************************************************************)
\* recordCacheHit(city): cacheStats.hits++
recordCacheHit(stats) == [stats EXCEPT !.hits = @ + 1]

\* a miss recorded in the counter of the hits
recordCacheMissAsHit(stats) == [stats EXCEPT !.hits = @ + 1]

\* recordCacheMiss(city): cacheStats.misses++
recordCacheMiss(stats) == [stats EXCEPT !.misses = @ + 1]

\* getCacheStats(): a copy of the counters
getCacheStats == [hits |-> cacheStats.hits, misses |-> cacheStats.misses]

\* app.get('/cache-stats'): the body of the response.  The hit rate is given
\* in hundredths of a percent, as toFixed(2) rounds it; it is the number 0,
\* not a text of toFixed, when there is no request yet
CacheStatsEndpoint ==
    LET stats == getCacheStats
        total == stats.hits + stats.misses
    IN  [ hits    |-> stats.hits,
          misses  |-> stats.misses,
          total   |-> total,
          hitRate |-> IF total > 0
                      THEN [fixed |-> TRUE,
                            hundredths |-> (2 * stats.hits * 10000 + total) \div (2 * total)]
                      ELSE [fixed |-> FALSE, hundredths |-> 0] ]

(***************************************************************************)
(* app.get('/'): the arrival of a request and its cache lookup.            *)
(* Requests are numbered in the order of their arrival.                    *)
(***************************************************************************)
\* a server whose backoff holds the event loop: nothing is accepted while a
\* request waits between two attempts
ArrivesUnlessBlocked(r) ==
    /\ req[r].pc = "new"
    /\ IF r = 1 THEN TRUE ELSE req[r - 1].pc # "new"
    /\ \A x \in Requests : req[x].pc # "backoff"

Arrives(r) ==
    /\ req[r].pc = "new"
    /\ IF r = 1 THEN TRUE ELSE req[r - 1].pc # "new"

Arrived(r, query) ==
    [req[r] EXCEPT !.query = query, !.city = CityOf(query), !.arrivedAt = now,
                   !.metBackoff = { x \in Requests : req[x].pc = "backoff" }]

\* await cache.get(cacheKey) raises: the handler's promise is rejected, no
\* response is rendered by the handler
CacheGetRaises(r, query) ==
    /\ Arrives(r)
    /\ cacheOn
    /\ cacheFaults < MaxCacheFaults
    /\ cacheFaults' = cacheFaults + 1
    /\ req' = [req EXCEPT ![r] = [Arrived(r, query) EXCEPT
                  !.pc = "rejected", !.lookup = "raised", !.thrown = CacheError("GET")]]
    /\ UNCHANGED << now, cacheOn, store, cacheStats, forecastRequestCounter,
                    cityRequestCounter, netFaults,
                    shutdown >>

\* a hit that renews the entry it read (GETEX): the expiry slides
CacheHitRefreshes(r, query) ==
    LET key   == cacheKey(CityOf(query))
        reply == RedisGet(key)
    IN  /\ Arrives(r)
        /\ cacheOn
        /\ Truthy(reply)
        /\ cacheStats' = recordCacheHit(cacheStats)
        /\ store' = [store EXCEPT ![key] = [@ EXCEPT !.expires = Expiry(EX)]]
        /\ req' = [req EXCEPT ![r] = [Arrived(r, query) EXCEPT
                      !.pc = "rendered", !.lookup = "hit",
                      !.hitWriter = reply.writer, !.hitSetAt = reply.setAt,
                      !.page = Page(JSONparse(reply.value), CityOf(query), << >>)]]
        /\ UNCHANGED << now, cacheOn, forecastRequestCounter,
                        cityRequestCounter, netFaults, cacheFaults,
                        shutdown >>

\* if (cache) { cachedForecasts = await cache.get(cacheKey); if (cachedForecasts) ... }
CacheHit(r, query) ==
    LET reply == RedisGet(cacheKey(CityOf(query)))
    IN  /\ Arrives(r)
        /\ cacheOn
        /\ Truthy(reply)
        /\ cacheStats' = recordCacheHit(cacheStats)
        /\ req' = [req EXCEPT ![r] = [Arrived(r, query) EXCEPT
                      !.pc = "rendered", !.lookup = "hit",
                      !.hitWriter = reply.writer, !.hitSetAt = reply.setAt,
                      !.page = Page(JSONparse(reply.value), CityOf(query), << >>)]]
        /\ UNCHANGED << now, cacheOn, store, forecastRequestCounter,
                        cityRequestCounter, netFaults, cacheFaults,
                        shutdown >>

\* no cache, or no live entry: recordCacheMiss(city), then fetchForecastsWithRetry
\* starts with attempt = 1
CacheMiss(r, query) ==
    /\ Arrives(r)
    /\ ~cacheOn \/ ~Truthy(RedisGet(cacheKey(CityOf(query))))
    /\ cacheStats' = recordCacheMiss(cacheStats)
    /\ req' = [req EXCEPT ![r] = [Arrived(r, query) EXCEPT
                  !.pc = "fetching", !.lookup = "miss", !.fetch = "running",
                  !.attempt = 1]]
    /\ UNCHANGED << now, cacheOn, store, forecastRequestCounter,
                    cityRequestCounter, netFaults, cacheFaults,
                    shutdown >>

(***************************************************************************)
(* fetchForecastsWithRetry: one pass of the loop body.                     *)
(***************************************************************************)
\* the span of an attempt, with the number of times span.end() ran
Span(attempt, error, ends) == [attempt |-> attempt, error |-> error, ends |-> ends]

\* the call is made: fetch(`.../weatherforecast?city=...&attempt=${attempt}`)
Called(q) == [q EXCEPT !.calls = Append(@, q.attempt)]

\* the backend counts the request when its handler reaches the counters
Count(counter, response) ==
    IF response.counted
    THEN [counter EXCEPT ![response.city] = @ + 1]
    ELSE counter

\* the handler's catch block: res.render('index', { forecasts: [], city, error })
RenderFailure(q, error) ==
    [q EXCEPT !.pc = "rendered", !.thrown = error,
              !.page = Page(<< >>, q.city, FailureMessage(q.city, error))]

\* a loop that keeps the first error and throws that one when it gives up
AttemptFailedThrowsFirst(q, kind, error, ends, delay) ==
    LET seen == [q EXCEPT
                    !.outcomes = Append(@, [kind |-> kind, error |-> error, u |-> 0]),
                    !.spans = Append(@, Span(q.attempt, TRUE, ends))]
    IN  IF IsLastAttempt(q.attempt)
        THEN RenderFailure([seen EXCEPT !.fetch = "threw"], seen.outcomes[1].error)
        ELSE [seen EXCEPT !.pc = "backoff", !.waits = Append(@, delay)]

\* a loop that gives up quietly: after the last failure it returns an empty
\* list instead of throwing
AttemptFailedReturnsEmpty(q, kind, error, ends, delay) ==
    LET seen == [q EXCEPT
                    !.outcomes = Append(@, [kind |-> kind, error |-> error, u |-> 0]),
                    !.spans = Append(@, Span(q.attempt, TRUE, ends))]
    IN  IF IsLastAttempt(q.attempt)
        THEN [seen EXCEPT !.pc = "fetched", !.fetch = "returned"]
        ELSE [seen EXCEPT !.pc = "backoff", !.waits = Append(@, delay)]

\* a loop that waits after every failure, the last one included, before it
\* throws
AttemptFailedAlwaysWaits(q, kind, error, ends, delay) ==
    LET seen == [q EXCEPT
                    !.outcomes = Append(@, [kind |-> kind, error |-> error, u |-> 0]),
                    !.spans = Append(@, Span(q.attempt, TRUE, ends)),
                    !.waits = Append(@, delay)]
    IN  IF IsLastAttempt(q.attempt)
        THEN RenderFailure([seen EXCEPT !.fetch = "threw"], error)
        ELSE [seen EXCEPT !.pc = "backoff"]

\* an attempt has failed with `error` after `ends` calls of span.end():
\* the last attempt throws it to the handler, an earlier one waits `delay` ms
AttemptFailed(q, kind, error, ends, delay) ==
    LET seen == [q EXCEPT
                    !.outcomes = Append(@, [kind |-> kind, error |-> error, u |-> 0]),
                    !.spans = Append(@, Span(q.attempt, TRUE, ends))]
    IN  IF IsLastAttempt(q.attempt)
        THEN RenderFailure([seen EXCEPT !.fetch = "threw"], error)
        ELSE [seen EXCEPT !.pc = "backoff", !.waits = Append(@, delay)]

\* a loop body without the return: after a success the loop goes on
AttemptSucceedsContinues(r, u) ==
    LET q        == req[r]
        response == Responses[q.city, q.attempt, u]
    IN  /\ q.pc = "fetching"
        /\ q.attempt <= maxRetries
        /\ Ok(response)
        /\ forecastRequestCounter' = Count(forecastRequestCounter, response)
        /\ cityRequestCounter' = Count(cityRequestCounter, response)
        /\ req' = [req EXCEPT ![r] = [Called(q) EXCEPT
                      !.attempt = NextAttempt(@),
                      !.pc = IF IsLastAttempt(q.attempt) THEN "fetched" ELSE "fetching",
                      !.fetch = IF IsLastAttempt(q.attempt) THEN "returned" ELSE "running",
                      !.outcomes = Append(@, [kind |-> "ok", error |-> NoError, u |-> u]),
                      !.spans = Append(@, Span(q.attempt, FALSE, 1)),
                      !.fetchSuccess = Append(@, q.attempt),
                      !.forecasts = JSONparse(response.body)]]
        /\ UNCHANGED << now, cacheOn, store, cacheStats, netFaults, cacheFaults,
                        shutdown >>

\* a success recorded with the number of retries, not of the attempt
AttemptSucceedsRecordsRetries(r, u) ==
    LET q        == req[r]
        response == Responses[q.city, q.attempt, u]
    IN  /\ q.pc = "fetching"
        /\ Ok(response)
        /\ forecastRequestCounter' = Count(forecastRequestCounter, response)
        /\ cityRequestCounter' = Count(cityRequestCounter, response)
        /\ req' = [req EXCEPT ![r] = [Called(q) EXCEPT
                      !.pc = "fetched", !.fetch = "returned",
                      !.outcomes = Append(@, [kind |-> "ok", error |-> NoError, u |-> u]),
                      !.spans = Append(@, Span(q.attempt, FALSE, 1)),
                      !.fetchSuccess = Append(@, q.attempt - 1),
                      !.forecasts = JSONparse(response.body)]]
        /\ UNCHANGED << now, cacheOn, store, cacheStats, netFaults, cacheFaults,
                        shutdown >>

\* the response is ok and its body parses: lines 96-105
AttemptSucceeds(r, u) ==
    LET q        == req[r]
        response == Responses[q.city, q.attempt, u]
    IN  /\ q.pc = "fetching"
        /\ Ok(response)
        /\ forecastRequestCounter' = Count(forecastRequestCounter, response)
        /\ cityRequestCounter' = Count(cityRequestCounter, response)
        /\ req' = [req EXCEPT ![r] = [Called(q) EXCEPT
                      !.pc = "fetched", !.fetch = "returned",
                      !.outcomes = Append(@, [kind |-> "ok", error |-> NoError, u |-> u]),
                      !.spans = Append(@, Span(q.attempt, FALSE, 1)),
                      !.fetchSuccess = Append(@, q.attempt),
                      !.forecasts = JSONparse(response.body)]]
        /\ UNCHANGED << now, cacheOn, store, cacheStats, netFaults, cacheFaults,
                        shutdown >>

\* the response is not ok: lines 66-94.  span.end() runs at line 82; on the last
\* attempt the Error thrown at line 86 is caught at line 107, where span.end()
\* runs again before the error is thrown on
AttemptNonOk(r, u) ==
    LET q        == req[r]
        response == Responses[q.city, q.attempt, u]
        error    == ApiError(response.status, response.body, q.attempt)
    IN  /\ q.pc = "fetching"
        /\ ~Ok(response)
        /\ forecastRequestCounter' = Count(forecastRequestCounter, response)
        /\ cityRequestCounter' = Count(cityRequestCounter, response)
        /\ req' = [req EXCEPT ![r] =
                      AttemptFailed(Called(q), "nonok", error,
                                    IF IsLastAttempt(q.attempt) THEN 2 ELSE 1,
                                    DelayAfterNonOk(q.attempt))]
        /\ UNCHANGED << now, cacheOn, store, cacheStats, netFaults, cacheFaults,
                        shutdown >>

\* fetch(url) throws (the request does not reach the backend), or the body of
\* the response cannot be read (response.text() or response.json() throws):
\* the catch block, lines 107-130
AttemptThrows(r, fault, u) ==
    LET q        == req[r]
        response == Responses[q.city, q.attempt, u]
        error    == TransportError(fault, q.attempt)
    IN  /\ q.pc = "fetching"
        /\ netFaults < MaxNetFaults
        /\ netFaults' = netFaults + 1
        /\ IF fault = "body"
           THEN /\ forecastRequestCounter' = Count(forecastRequestCounter, response)
                /\ cityRequestCounter' = Count(cityRequestCounter, response)
           ELSE UNCHANGED << forecastRequestCounter, cityRequestCounter >>
        /\ req' = [req EXCEPT ![r] =
                      AttemptFailed(Called(q), "exception", error, 1,
                                    DelayAfterException(q.attempt))]
        /\ UNCHANGED << now, cacheOn, store, cacheStats, cacheFaults,
                        shutdown >>

\* a backoff whose promise is never resolved: the loop stays suspended
TimerNeverFires(r) ==
    /\ req[r].pc = "backoff"
    /\ FALSE
    /\ UNCHANGED vars

\* the timer of the backoff fires: the loop goes on with attempt++
TimerFires(r) ==
    /\ req[r].pc = "backoff"
    /\ req' = [req EXCEPT ![r] = [@ EXCEPT !.pc = "fetching", !.attempt = NextAttempt(@)]]
    /\ UNCHANGED << now, cacheOn, store, cacheStats, forecastRequestCounter,
                    cityRequestCounter, netFaults, cacheFaults,
                    shutdown >>

(***************************************************************************)
(* app.get('/'): after fetchForecastsWithRetry returned, lines 193-201.    *)
(***************************************************************************)
\* the number of cache.set commands that took effect on a key so far
SetsOfKey(key) ==
    Cardinality({ x \in Requests : req[x].sets > 0 /\ cacheKey(req[x].city) = key })

\* a handler that writes the entry without testing `if (cache)`
StoreAndRenderUnguarded(r) ==
    LET q     == req[r]
        value == JSONstringify(q.forecasts)
    IN  /\ q.pc = "fetched"
        /\ store' = RedisSet(cacheKey(q.city), value, EX, r)
        /\ req' = [req EXCEPT ![r] = [q EXCEPT
                      !.pc = "rendered", !.sets = @ + 1,
                      !.setOrder = SetsOfKey(cacheKey(q.city)) + 1,
                      !.page = Page(q.forecasts, q.city, << >>)]]
        /\ UNCHANGED << now, cacheOn, cacheStats, forecastRequestCounter,
                        cityRequestCounter, netFaults, cacheFaults,
                        shutdown >>

\* if (cache) await cache.set(cacheKey, JSON.stringify(forecasts), { 'EX': 30 });
\* res.render('index', { forecasts, city, error: null })
StoreAndRender(r) ==
    LET q     == req[r]
        value == JSONstringify(q.forecasts)
    IN  /\ q.pc = "fetched"
        /\ IF cacheOn
           THEN /\ store' = RedisSet(cacheKey(q.city), value, EX, r)
                /\ req' = [req EXCEPT ![r] = [q EXCEPT
                              !.pc = "rendered", !.sets = @ + 1,
                              !.setOrder = SetsOfKey(cacheKey(q.city)) + 1,
                              !.page = Page(q.forecasts, q.city, << >>)]]
           ELSE /\ store' = store
                /\ req' = [req EXCEPT ![r] = [q EXCEPT
                              !.pc = "rendered",
                              !.page = Page(q.forecasts, q.city, << >>)]]
        /\ UNCHANGED << now, cacheOn, cacheStats, forecastRequestCounter,
                        cityRequestCounter, netFaults, cacheFaults,
                        shutdown >>

\* await cache.set(...) raises inside the try block: the catch block of the
\* handler renders the failure page
CacheSetRaises(r) ==
    /\ req[r].pc = "fetched"
    /\ cacheOn
    /\ cacheFaults < MaxCacheFaults
    /\ cacheFaults' = cacheFaults + 1
    /\ req' = [req EXCEPT ![r] = RenderFailure(req[r], CacheError("SET"))]
    /\ UNCHANGED << now, cacheOn, store, cacheStats, forecastRequestCounter,
                    cityRequestCounter, netFaults,
                    shutdown >>

(***************************************************************************)
(* Time.                                                                   *)
(***************************************************************************)
\* The clock is read only by Redis, to expire entries: it is advanced while
\* some entry is live.
Tick ==
    /\ \E key \in DOMAIN store : Live(store[key])
    /\ now + TickStep <= MaxTime
    /\ now' = now + TickStep
    /\ UNCHANGED << cacheOn, store, req, cacheStats, forecastRequestCounter,
                    cityRequestCounter, netFaults, cacheFaults,
                    shutdown >>

Next ==
    \/ \E r \in Requests, query \in QueryCities : CacheGetRaises(r, query)
    \/ \E r \in Requests, query \in QueryCities : CacheHit(r, query)
    \/ \E r \in Requests, query \in QueryCities : CacheMiss(r, query)
    \/ \E r \in Requests, u \in Draws : AttemptSucceeds(r, u)
    \/ \E r \in Requests, u \in Draws : AttemptNonOk(r, u)
    \/ \E r \in Requests, fault \in {"fetch", "body"}, u \in Draws : AttemptThrows(r, fault, u)
    \/ \E r \in Requests : TimerFires(r)
    \/ \E r \in Requests : StoreAndRender(r)
    \/ \E r \in Requests : CacheSetRaises(r)
    \/ Tick

Spec == Init /\ [][Next]_vars

\* The provider call of an attempt comes to an end, with a response or with
\* an exception.
ProviderAnswers(r) ==
    \E u \in Draws :
        \/ AttemptSucceeds(r, u)
        \/ AttemptNonOk(r, u)
        \/ \E fault \in {"fetch", "body"} : AttemptThrows(r, fault, u)

\* The program with its scheduling: an awaited provider call is answered and
\* the timer of a backoff fires.
FairSpec ==
    /\ Spec
    /\ \A r \in Requests : WF_vars(ProviderAnswers(r))
    /\ \A r \in Requests : WF_vars(TimerFires(r))

(***************************************************************************)
(* gracefulShutdown, lines 294-345.  It is followed in a process that      *)
(* serves no request meanwhile: closeAllConnections and process.exit end   *)
(* whatever request is under way.                                          *)
(***************************************************************************)
\* process.exit(0)
Exit(s) ==
    [s EXCEPT !.exited = TRUE, !.awaiting = "nothing", !.events = Append(@, "exit")]

\* what follows `await Promise.all(closePromises)`: the cleanup, which awaits
\* cache.disconnect() when there is a cache, and otherwise the exit
AfterServersClosed(s) ==
    IF ~s.cleanupDone /\ cacheOn
    THEN [s EXCEPT !.cleanupDone = TRUE,
                   !.disconnects = @ + 1,
                   !.awaiting = "disconnect",
                   !.events = Append(@, "disconnect")]
    ELSE Exit([s EXCEPT !.cleanupDone = TRUE])

\* closeServer(httpServer); closeServer(httpsServer): close() is called on
\* each server there is
CloseServers(s) ==
    [s EXCEPT !.httpServer = "closing",
              !.httpsServer = IF @ = "null" THEN "null" ELSE "closing",
              !.awaiting = "servers",
              !.events = @ \o (IF s.httpsServer = "null"
                               THEN << "close http" >>
                               ELSE << "close http", "close https" >>)]

\* a handler without the isShuttingDown guard: every signal starts a shutdown
gracefulShutdownUnguarded(signal) ==
    /\ ~shutdown.exited
    /\ Len(shutdown.signals) < MaxSignals
    /\ shutdown' = CloseServers([shutdown EXCEPT
                       !.signals = Append(@, signal),
                       !.isShuttingDown = TRUE,
                       !.runs = @ + 1])
    /\ UNCHANGED requestVars

\* process.on('SIGINT' / 'SIGTERM', () => gracefulShutdown(signal)), up to
\* the first await
gracefulShutdown(signal) ==
    /\ ~shutdown.exited
    /\ Len(shutdown.signals) < MaxSignals
    /\ IF shutdown.isShuttingDown
       THEN shutdown' = [shutdown EXCEPT !.signals = Append(@, signal)]
       ELSE shutdown' = CloseServers([shutdown EXCEPT
                            !.signals = Append(@, signal),
                            !.isShuttingDown = TRUE,
                            !.runs = @ + 1])
    /\ UNCHANGED requestVars

\* the callback of httpServer.close(): the promise of closeServer resolves;
\* when it was the last one awaited, gracefulShutdown goes on
HttpServerClosed ==
    LET closed == [shutdown EXCEPT !.httpServer = "closed",
                                   !.events = Append(@, "http closed")]
    IN  /\ ~shutdown.exited
        /\ shutdown.httpServer = "closing"
        /\ shutdown' = IF closed.httpsServer \in {"null", "closed"}
                       THEN AfterServersClosed(closed)
                       ELSE closed
        /\ UNCHANGED requestVars

HttpsServerClosed ==
    LET closed == [shutdown EXCEPT !.httpsServer = "closed",
                                   !.events = Append(@, "https closed")]
    IN  /\ ~shutdown.exited
        /\ shutdown.httpsServer = "closing"
        /\ shutdown' = IF closed.httpServer = "closed"
                       THEN AfterServersClosed(closed)
                       ELSE closed
        /\ UNCHANGED requestVars

\* await cache.disconnect() settles: resolved, or rejected and caught; then
\* process.exit(0)
DisconnectSettles(resolved) ==
    /\ ~shutdown.exited
    /\ shutdown.awaiting = "disconnect"
    /\ shutdown' = Exit([shutdown EXCEPT
                       !.disconnectFailed = ~resolved,
                       !.events = Append(@, IF resolved THEN "disconnected"
                                                        ELSE "disconnect failed")])
    /\ UNCHANGED requestVars

ShutdownInit ==
    /\ shutdown \in { Serving(httpsEnabled) : httpsEnabled \in BOOLEAN }
    /\ now = 0
    /\ cacheOn \in BOOLEAN
    /\ store = << >>
    /\ req = [r \in Requests |-> NewRequest]
    /\ cacheStats = [hits |-> 0, misses |-> 0]
    /\ forecastRequestCounter = [c \in CityNames |-> 0]
    /\ cityRequestCounter = [c \in CityNames |-> 0]
    /\ netFaults = 0
    /\ cacheFaults = 0

ShutdownNext ==
    \/ \E signal \in {"SIGINT", "SIGTERM"} : gracefulShutdown(signal)
    \/ HttpServerClosed
    \/ HttpsServerClosed
    \/ \E resolved \in BOOLEAN : DisconnectSettles(resolved)

ShutdownSpec == ShutdownInit /\ [][ShutdownNext]_vars

(***************************************************************************)
(* Properties.                                                             *)
(***************************************************************************)
\* the kinds of the outcomes of the attempts of a request, in order
Kinds(q) == [k \in 1..Len(q.outcomes) |-> q.outcomes[k].kind]

\* every attempt made so far has failed
AllFailed(q) == \A k \in 1..Len(q.outcomes) : q.outcomes[k].kind # "ok"

\* C1: a fetch calls the provider at most 3 times, and its k-th call carries
\* attempt = k: the attempt numbers are 1, 2, 3 in order, no gap, no repeat.
C1_AttemptNumbersInOrder ==
    \A r \in Requests :
        /\ Len(req[r].calls) <= 3
        /\ \A k \in 1..Len(req[r].calls) : req[r].calls[k] = k

\* a fetch that used its three attempts
C1_Witness == \E r \in Requests : req[r].calls = <<1, 2, 3>>

\* C2: the attempt that succeeds is the last call of its fetch: the fetch has
\* returned the forecast the provider answered in that attempt, and no call
\* with a higher attempt number exists, in this state or any later one.
C2_SuccessEndsTheFetch ==
    \A r \in Requests : \A k \in 1..Len(req[r].outcomes) :
        req[r].outcomes[k].kind = "ok" =>
            /\ k = Len(req[r].outcomes)
            /\ Len(req[r].calls) = k
            /\ req[r].fetch = "returned"
            /\ req[r].forecasts =
                   JSONparse(Responses[req[r].city, k, req[r].outcomes[k].u].body)

\* a fetch that succeeded at its second attempt, after which the request went on
C2_Witness ==
    \E r \in Requests :
        /\ Kinds(req[r]) = <<"exception", "ok">>
        /\ req[r].pc = "rendered"

\* C3: when the three attempts of a fetch have failed, by non-ok responses or
\* exceptions in any combination, the fetch has thrown, what it threw is the
\* error of the third attempt, and it returned no value.
C3_ExhaustionThrowsLastError ==
    \A r \in Requests :
        (Len(req[r].outcomes) = 3 /\ AllFailed(req[r])) =>
            /\ req[r].fetch = "threw"
            /\ req[r].thrown = req[r].outcomes[3].error
            /\ req[r].thrown.attempt = 3
            /\ req[r].forecasts = << >>

\* an exhausted fetch whose attempts failed in different ways
C3_Witness ==
    \E r \in Requests :
        /\ Kinds(req[r]) = <<"exception", "nonok", "nonok">>
        /\ req[r].fetch = "threw"

\* the city strings a request can carry, with what each is in upper case and
\* the registry entry each resolves to, computed once
KnownCities == RequestCities \cup {NoCity}
UpperOf == [city \in KnownCities |-> ToUpper(city)]
Resolved == [city \in KnownCities |-> normalizedCity(city)]
ResolvedRange == [city \in KnownCities |-> CityRange(normalizedCity(city))]

UpperBoston == ToUpper(Boston)
UpperPhoenix == ToUpper(Phoenix)
IsBoston(city) == UpperOf[city] = UpperBoston
IsPhoenix(city) == UpperOf[city] = UpperPhoenix

\* C4: for a city that matches "Boston" whatever its case, every attempt fails:
\* a fetch that has ended has made the calls 1, 2, 3 and has thrown, the
\* request has written nothing to the cache and its key holds no entry.
C4_BostonExhausts ==
    \A r \in Requests :
        IsBoston(req[r].city) =>
            /\ AllFailed(req[r])
            /\ req[r].fetch # "returned"
            /\ req[r].fetch = "threw" => req[r].calls = <<1, 2, 3>>
            /\ (req[r].pc = "rendered" /\ req[r].lookup = "miss") => req[r].fetch = "threw"
            /\ req[r].sets = 0
            /\ req[r].lookup # "hit"
            /\ cacheKey(req[r].city) \notin DOMAIN store

\* a request for "boston" that exhausted its attempts, with a cache configured
C4_Witness ==
    \E r \in Requests :
        /\ req[r].city = <<"b","o","s","t","o","n">>
        /\ req[r].fetch = "threw"
        /\ req[r].pc = "rendered"
        /\ cacheOn

\* C5: for a city that matches neither Boston nor Phoenix the provider answers
\* every call with success; a fetch whose transport delivers the call and the
\* answer makes exactly one call, with attempt = 1, and returns.
C5_OtherCitiesSucceedAtOnce ==
    \A r \in Requests :
        (req[r].lookup = "miss" /\ ~IsBoston(req[r].city) /\ ~IsPhoenix(req[r].city)) =>
            /\ \A a \in 1..3, u \in Draws : Ok(Responses[req[r].city, a, u])
            /\ \A k \in 1..Len(req[r].outcomes) : req[r].outcomes[k].kind # "nonok"
            /\ (req[r].outcomes # << >> /\ req[r].outcomes[1].kind # "exception") =>
                   /\ req[r].calls = <<1>>
                   /\ Kinds(req[r]) = <<"ok">>
                   /\ req[r].fetch = "returned"

\* a fetch for a city the registry does not know, answered at its first call
C5_Witness ==
    \E r \in Requests :
        /\ req[r].city = <<"P","a","r","i","s">>
        /\ req[r].calls = <<1>>
        /\ req[r].fetch = "returned"

\* C6: for Phoenix the call with attempt = 1 always fails: no fetch for Phoenix
\* succeeds with fewer than 2 calls, and no success is recorded with attempt 1.
C6_PhoenixFirstAttemptFails ==
    \A r \in Requests :
        IsPhoenix(req[r].city) =>
            /\ req[r].outcomes # << >> => req[r].outcomes[1].kind # "ok"
            /\ req[r].fetch = "returned" => Len(req[r].calls) >= 2
            /\ \A i \in 1..Len(req[r].fetchSuccess) : req[r].fetchSuccess[i] # 1

\* t occurs in s as a contiguous part
IsSubstring(t, s) ==
    \E i \in 1..(Len(s) - Len(t) + 1) : SubSeq(s, i, i + Len(t) - 1) = t

\* C7: a request whose fetch ends in exhaustion performs no cache.set, the step
\* in which it gives up leaves the cache as it was (the cache changes only in
\* steps that perform a set for a request whose fetch returned), and its page
\* has no forecasts and a message built from the city alone, without the text
\* of the error the fetch threw.
C7_ExhaustionLeavesCacheAndHidesCause ==
    /\ [](\A r \in Requests :
            req[r].fetch = "threw" =>
                /\ req[r].sets = 0
                /\ req[r].page.sent
                /\ req[r].page.forecasts = << >>
                /\ req[r].page.city = req[r].city
                /\ req[r].page.error =
                       <<"Failed to fetch weather data for ">> \o req[r].city
                           \o <<". Please try again later.">>
                /\ ~IsSubstring(req[r].thrown.text, req[r].page.error))
    /\ [][ /\ \A r \in Requests :
                (req[r].fetch # "threw" /\ req'[r].fetch = "threw") => store' = store
           /\ store' # store =>
                \E r \in Requests :
                    /\ req[r].fetch = "returned"
                    /\ req'[r].sets = req[r].sets + 1 ]_vars

\* an exhausted request, rendered while the cache holds an entry of another one
C7_Witness ==
    \E r \in Requests :
        /\ req[r].fetch = "threw"
        /\ req[r].page.sent
        /\ store # << >>

\* C8: a request that arrives while a live entry (written less than 30 seconds
\* before) exists for its exact city string, and whose cache.get answers, is
\* served from the cache; a request served from the cache makes no provider
\* call and renders the payload that the writer of the entry had fetched and
\* stored, so all the requests that hit one entry render the same payload.
C8_HitsServeTheStoredPayload ==
    /\ [](\A r \in Requests :
            req[r].lookup = "hit" =>
                /\ req[r].calls = << >>
                /\ req[r].fetch = "none"
                /\ req[r].hitWriter \in Requests \ {r}
                /\ req[req[r].hitWriter].city = req[r].city
                /\ req[r].arrivedAt - req[r].hitSetAt < 30
                /\ req[r].page = Page(req[req[r].hitWriter].forecasts, req[r].city, << >>))
    /\ [][ \A r \in Requests :
             LET key == cacheKey(req'[r].city)
             IN  ( /\ req[r].pc = "new"
                   /\ req'[r].pc # "new"
                   /\ req'[r].lookup # "raised"
                   /\ cacheOn
                   /\ key \in DOMAIN store
                   /\ now - store[key].setAt < 30 )
                 => ( /\ req'[r].lookup = "hit"
                      /\ req'[r].pc = "rendered"
                      /\ req'[r].page.forecasts = JSONparse(store[key].value) ) ]_vars

\* a request served from an entry that was written earlier
C8_Witness ==
    \E r \in Requests :
        /\ req[r].lookup = "hit"
        /\ req[r].arrivedAt > req[r].hitSetAt

\* C9: for every entry the cache holds, a get of its key made less than 30
\* seconds after the set returns exactly the text that was stored, which
\* parses back to the forecasts the writer fetched; a get made once the 30
\* seconds have elapsed misses, although the entry is still in the keyspace.
C9_RoundTripAndExpiry ==
    \A key \in DOMAIN store :
        LET entry == store[key]
            reply == RedisGet(key)
        IN  /\ now - entry.setAt < 30 =>
                /\ Truthy(reply)
                /\ reply.value = JSONstringify(req[entry.writer].forecasts)
                /\ JSONparse(reply.value) = req[entry.writer].forecasts
            /\ now - entry.setAt >= 30 => ~reply.found

\* an entry that is still held after its time to live has elapsed
C9_Witness ==
    \E key \in DOMAIN store :
        /\ now - store[key].setAt >= 30
        /\ ~RedisGet(key).found

\* C10: a failing cache never makes a request fail: a request whose cache.get
\* raised goes on as on a miss, and a request whose fetch returned renders the
\* fetched forecasts without an error message, whatever cache.set did.
C10_CacheFailureIsSwallowed ==
    \A r \in Requests :
        /\ req[r].lookup = "raised" => req[r].pc # "rejected"
        /\ (req[r].fetch = "returned" /\ req[r].pc = "rendered") =>
               req[r].page = Page(req[r].forecasts, req[r].city, << >>)

\* C11: without a cache backend (cache = null) no request gets a hit and no
\* request writes an entry: the store stays empty, and every request that has
\* arrived was counted as a miss and went to fetchForecastsWithRetry.
C11_NoCacheMeansEveryRequestFetches ==
    ~cacheOn =>
        /\ DOMAIN store = {}
        /\ cacheStats.hits = 0
        /\ \A r \in Requests :
               /\ req[r].sets = 0
               /\ req[r].lookup \in {"none", "miss"}
               /\ req[r].pc # "new" =>
                      /\ req[r].lookup = "miss"
                      /\ req[r].fetch # "none"
                      /\ Len(req[r].calls) >= 1 \/ req[r].pc = "fetching"

\* without a cache, two requests for the same city have both fetched it
C11_Witness ==
    /\ ~cacheOn
    /\ req[1].city = req[2].city
    /\ \A r \in Requests :
           /\ req[r].pc = "rendered"
           /\ req[r].fetch = "returned"

\* C12: in a fetch that waited after its attempts 1 and 2, the second delay is
\* exactly twice the first, whatever the kinds of the two failures.
C12_SecondDelayDoublesTheFirst ==
    \A r \in Requests :
        Len(req[r].waits) >= 2 => req[r].waits[2] = 2 * req[r].waits[1]

\* C13: the delay waited after failed attempt k is 1000 * 2^(k-1) ms (1 s,
\* 2 s, ...), after a non-ok response as after an exception.
C13_DelaysAreSecondsDoubling ==
    \A r \in Requests : \A k \in 1..Len(req[r].waits) :
        req[r].waits[k] = 1000 * (2 ^ (k - 1))

\* the city strings differ, and only by the case of their letters
DifferByCaseOnly(a, b) == a # b /\ UpperOf[a] = UpperOf[b]

\* C14: the key of an entry is "forecasts:" followed by the city string of
\* its writer, case preserved; a hit is served from an entry written for the
\* very same city string, so that two requests whose cities differ by case
\* only are never served each other's entry, although the provider resolves
\* both to the same city.
C14_KeyKeepsTheCase ==
    /\ \A key \in DOMAIN store :
           key = <<"forecasts:">> \o req[store[key].writer].city
    /\ \A r \in Requests :
           req[r].lookup = "hit" =>
               /\ req[r].hitWriter \in Requests \ {r}
               /\ req[req[r].hitWriter].city = req[r].city
    /\ \A r \in Requests : \A w \in Requests \ {r} :
           ( /\ req[r].pc # "new"
             /\ req[w].pc # "new"
             /\ DifferByCaseOnly(req[r].city, req[w].city) )
           => /\ Resolved[req[r].city] = Resolved[req[w].city]
              /\ ~(req[r].lookup = "hit" /\ req[r].hitWriter = w)

\* a request that arrived while the entry of the other request was live, for
\* the same city in another case, and missed
C14_Witness ==
    \E w \in Requests : \E r \in Requests \ {w} :
        /\ DifferByCaseOnly(req[r].city, req[w].city)
        /\ req[w].sets = 1
        /\ cacheKey(req[w].city) \in DOMAIN store
        /\ store[cacheKey(req[w].city)].setAt < req[r].arrivedAt
        /\ req[r].arrivedAt < store[cacheKey(req[w].city)].setAt + 30
        /\ req[r].lookup = "miss"

\* the bodies of the successful responses the provider can give for a city
SuccessfulBodies(city) ==
    { Responses[city, attempt, u].body :
          <<attempt, u>> \in { p \in (1..maxRetries) \X Draws : Ok(Responses[city, p[1], p[2]]) } }

\* C15: each entry of the cache holds, under the key of its writer's city
\* string, the complete body of a successful response of the provider for
\* that city string, namely the one its writer's fetch received: never an
\* empty, failed or partial result, and never a value made up by the cache.
C15_EntriesAreProviderPayloads ==
    \A key \in DOMAIN store :
        LET entry  == store[key]
            writer == req[entry.writer]
        IN  /\ key = cacheKey(writer.city)
            /\ writer.fetch = "returned"
            /\ writer.outcomes # << >>
            /\ writer.outcomes[Len(writer.outcomes)].kind = "ok"
            /\ Len(entry.value) = ForecastDays
            /\ entry.value \in SuccessfulBodies(writer.city)
            /\ entry.value =
                   Responses[writer.city, Len(writer.calls),
                             writer.outcomes[Len(writer.outcomes)].u].body

\* an entry written by a request whose fetch succeeded after a failed attempt
C15_Witness ==
    \E key \in DOMAIN store :
        /\ Kinds(req[store[key].writer]) = <<"exception", "ok">>
        /\ req[store[key].writer].pc = "rendered"

\* the requests whose cache.set took effect on a key
WritersOf(key) ==
    { r \in Requests : req[r].sets > 0 /\ cacheKey(req[r].city) = key }

\* the one of them whose set ran last
LastWriterOf(key) ==
    CHOOSE r \in WritersOf(key) : \A x \in WritersOf(key) : req[x].setOrder <= req[r].setOrder

\* C16: each request that missed and fetched writes its whole payload, and
\* the last write wins: the entry of a key is, at any time, exactly the
\* payload of the request whose set of that key ran last, and what a get of
\* the key returns is the whole payload of one of its writers.
C16_LastWriteWins ==
    /\ \A r \in Requests :
           ( /\ cacheOn
             /\ req[r].pc = "rendered"
             /\ req[r].fetch = "returned"
             /\ req[r].thrown = NoError )
           => /\ req[r].sets = 1
              /\ cacheKey(req[r].city) \in DOMAIN store
    /\ \A key \in DOMAIN store :
           /\ WritersOf(key) # {}
           /\ \A x \in WritersOf(key) : \A y \in WritersOf(key) \ {x} :
                  req[x].setOrder # req[y].setOrder
           /\ store[key].writer = LastWriterOf(key)
           /\ store[key].value = JSONstringify(req[LastWriterOf(key)].forecasts)
           /\ RedisGet(key).found =>
                  RedisGet(key).value \in
                      { JSONstringify(req[w].forecasts) : w \in WritersOf(key) }

\* two requests for the same key have both missed and written different
\* payloads; the one that arrived first wrote last, and its payload is kept
C16_Witness ==
    /\ req[1].city = req[2].city
    /\ \A r \in Requests : req[r].lookup = "miss" /\ req[r].sets = 1
    /\ req[1].forecasts # req[2].forecasts
    /\ req[1].setOrder = 2
    /\ store[cacheKey(req[1].city)].value = JSONstringify(req[1].forecasts)

\* a step of request r that needs no fault: the lookup answers, the provider
\* answers, the timer fires, or the handler stores and renders
Progress(r) ==
    \/ \E query \in QueryCities : CacheHit(r, query) \/ CacheMiss(r, query)
    \/ \E u \in Draws : AttemptSucceeds(r, u) \/ AttemptNonOk(r, u)
    \/ TimerFires(r)
    \/ StoreAndRender(r)

\* C17: a request waiting in a backoff blocks no other request: while it
\* waits, every other request that has not finished, whether it has yet to
\* arrive or is under way, for the same city or another, can take its next
\* step.
C17_BackoffBlocksNobody ==
    \A r \in Requests :
        req[r].pc = "backoff" =>
            \A x \in Requests \ {r} :
                req[x].pc \notin {"rendered", "rejected"} => ENABLED Progress(x)

\* a request arrived while the other one was in its first backoff, fetched
\* its forecasts and was rendered, and the other one is still waiting
C17_Witness ==
    \E r \in Requests : \E x \in Requests \ {r} :
        /\ req[r].pc = "backoff"
        /\ Len(req[r].waits) = 1
        /\ r \in req[x].metBackoff
        /\ req[x].fetch = "returned"
        /\ req[x].pc = "rendered"

\* the ways fetchForecastsWithRetry can be left, and what it leaves behind
FetchEndsWell(q) ==
    /\ q.fetch \in {"none", "running", "returned", "threw"}
    /\ q.fetch = "running" => q.pc \in {"fetching", "backoff"}
    /\ q.fetch = "returned" =>
           /\ q.pc \in {"fetched", "rendered"}
           /\ q.outcomes # << >>
           /\ q.outcomes[Len(q.outcomes)].kind = "ok"
           /\ Len(q.forecasts) = ForecastDays
    /\ q.fetch = "threw" =>
           /\ q.pc = "rendered"
           /\ Len(q.outcomes) = maxRetries
           /\ AllFailed(q)
           /\ q.thrown = q.outcomes[maxRetries].error

\* C18: when provider calls are answered and timers fire, a fetch that has
\* started ends, either by returning a forecast (success) or by throwing
\* after its third failure (exhaustion); it has no other way out.
C18_FetchTerminates ==
    /\ [](\A r \in Requests : FetchEndsWell(req[r]))
    /\ \A r \in Requests :
           (req[r].fetch = "running") ~> (req[r].fetch \in {"returned", "threw"})

\* the two ends of a fetch: one has returned at its third attempt, the other
\* one has thrown after three failures
C18_Witness ==
    \E r \in Requests : \E x \in Requests \ {r} :
        /\ req[r].fetch = "returned"
        /\ Len(req[r].calls) = maxRetries
        /\ req[x].fetch = "threw"

\* the attempts of a request that the provider answered, with a response
\* the frontend could read
Answered(q) == { k \in 1..Len(q.outcomes) : q.outcomes[k].kind \in {"ok", "nonok"} }

\* C19: the provider keeps no memory of the requests it served: whenever two
\* provider calls, of one request or of two, made at any time, name the same
\* city with the same attempt number, both succeed or both fail; and two
\* that succeed under the same draw return the same forecast.
C19_ProviderHasNoMemory ==
    \A r \in Requests : \A x \in Requests :
        \A k \in Answered(req[r]) \cap Answered(req[x]) :
            req[r].city = req[x].city =>
                /\ req[r].outcomes[k].kind = req[x].outcomes[k].kind
                /\ ( /\ req[r].outcomes[k].kind = "ok"
                     /\ req[r].outcomes[k].u = req[x].outcomes[k].u )
                   => req[r].forecasts = req[x].forecasts

\* two requests for the same city were both served by the provider at their
\* first attempt, under the same draw, the backend having counted both
C19_Witness ==
    /\ req[1].city = req[2].city
    /\ \A r \in Requests :
           /\ req[r].outcomes # << >>
           /\ req[r].outcomes[1].kind = "ok"
    /\ req[1].outcomes[1].u = req[2].outcomes[1].u
    /\ forecastRequestCounter[Resolved[req[1].city]] = 2

\* C20: the forecast of every successful provider response has exactly 5
\* days, with day offsets 1, 2, 3, 4, 5 in that order; each day carries the
\* registry name the requested city resolves to, and a Celsius temperature t
\* with minTemp <= t < maxTemp for that city.
C20_ForecastShape ==
    \A r \in Requests :
        req[r].fetch = "returned" =>
            LET name  == Resolved[req[r].city]
                range == ResolvedRange[req[r].city]
            IN  /\ name \in CityNames
                /\ Len(req[r].forecasts) = 5
                /\ \A i \in 1..Len(req[r].forecasts) :
                       /\ req[r].forecasts[i].date = i
                       /\ req[r].forecasts[i].city = name
                       /\ range.MinTemp <= req[r].forecasts[i].temperatureC
                       /\ req[r].forecasts[i].temperatureC < range.MaxTemp

\* a forecast returned for a city that is not in the registry: it is
\* Seattle's, with a day at the least temperature, -5, and a day at the
\* greatest, 24
C20_Witness ==
    \E r \in Requests :
        /\ req[r].fetch = "returned"
        /\ req[r].city \notin CityNames
        /\ req[r].city # NoCity
        /\ ~EqualsOrdinalIgnoreCase(req[r].city, Seattle)
        /\ \E i \in 1..5 : req[r].forecasts[i].temperatureC = -5
        /\ \E i \in 1..5 : req[r].forecasts[i].temperatureC = 24
        /\ \A i \in 1..5 : req[r].forecasts[i].city = Seattle

\* the registry names in upper case, and the responses of the endpoint to a
\* request without a city parameter, computed once
UpperNames == { ToUpper(cities[i].name) : i \in 1..Len(cities) }
MissingCityResponses == [u \in Draws |-> WeatherForecastEndpoint(NoCity, 1, u)]

\* C21: a city that matches no registry name, whatever the case, is served
\* as Seattle: the provider answers with success, and the forecast has 5 days
\* of city "Seattle" with -5 <= t < 25.  A request to the endpoint without a
\* city parameter gets what a request for Seattle gets.
C21_UnknownCityIsSeattle ==
    /\ \A u \in Draws :
           /\ Ok(MissingCityResponses[u])
           /\ MissingCityResponses[u] = Responses[Seattle, 1, u]
    /\ \A r \in Requests :
           (req[r].pc # "new" /\ UpperOf[req[r].city] \notin UpperNames) =>
               /\ \A k \in 1..Len(req[r].outcomes) : req[r].outcomes[k].kind # "nonok"
               /\ req[r].fetch = "returned" =>
                      /\ Len(req[r].forecasts) = 5
                      /\ \A i \in 1..Len(req[r].forecasts) :
                             /\ req[r].forecasts[i].city = Seattle
                             /\ -5 <= req[r].forecasts[i].temperatureC
                             /\ req[r].forecasts[i].temperatureC < 25

\* a request for "Paris" was rendered with a forecast of Seattle
C21_Witness ==
    \E r \in Requests :
        /\ req[r].query = <<"P","a","r","i","s">>
        /\ req[r].pc = "rendered"
        /\ req[r].page.forecasts # << >>
        /\ req[r].page.forecasts[1].city = Seattle
        /\ req[r].page.city = <<"P","a","r","i","s">>

\* the Fahrenheit value of every Celsius value of the registry's ranges,
\* computed once
Fahrenheit == [C \in -15..44 |-> TemperatureF(C)]

\* q is the quotient of C by 0.5556 truncated toward zero
IsTruncatedQuotient(q, C) ==
    IF C >= 0
    THEN /\ q >= 0
         /\ q * 5556 <= C * 10000
         /\ C * 10000 < (q + 1) * 5556
    ELSE /\ q <= 0
         /\ q * 5556 >= C * 10000
         /\ C * 10000 > (q - 1) * 5556

\* C22: for every Celsius value C from -15 to 44, TemperatureF is 32 plus
\* the quotient of C by 0.5556 truncated toward zero, also for negative C;
\* and every forecast day that was fetched, stored or rendered carries the
\* Fahrenheit value of its own Celsius value.
C22_FahrenheitOfCelsius ==
    /\ \A C \in -15..44 : IsTruncatedQuotient(Fahrenheit[C] - 32, C)
    /\ \A r \in Requests :
           /\ \A i \in 1..Len(req[r].forecasts) :
                  req[r].forecasts[i].temperatureF =
                      Fahrenheit[req[r].forecasts[i].temperatureC]
           /\ \A i \in 1..Len(req[r].page.forecasts) :
                  req[r].page.forecasts[i].temperatureF =
                      Fahrenheit[req[r].page.forecasts[i].temperatureC]
    /\ \A key \in DOMAIN store : \A i \in 1..Len(store[key].value) :
           store[key].value[i][5] = Fahrenheit[store[key].value[i][2]]

\* a rendered forecast with a day of -5 degrees Celsius, which is 24 degrees
\* Fahrenheit: -5 / 0.5556 = -8.99..., truncated to -8
C22_Witness ==
    \E r \in Requests : \E i \in 1..Len(req[r].page.forecasts) :
        /\ req[r].page.forecasts[i].temperatureC = -5
        /\ req[r].page.forecasts[i].temperatureF = 24

\* the provider calls, over all requests, for a city resolving to `name` that
\* the backend answered with a response the frontend read: pairs <<r, k>>
AnsweredCallsFor(name) ==
    { p \in Requests \X (1..maxRetries) :
          /\ req[p[1]].pc # "new"
          /\ Resolved[req[p[1]].city] = name
          /\ p[2] \in Answered(req[p[1]]) }

\* C23: the backend counts every request it answers, with an error as with
\* a forecast: each of the two counters of a city is at least the number of
\* answers given for that city, 500 answers for Boston included, and the two
\* counters agree.
C23_ErrorsAreCounted ==
    \A name \in CityNames :
        /\ forecastRequestCounter[name] >= Cardinality(AnsweredCallsFor(name))
        /\ cityRequestCounter[name] = forecastRequestCounter[name]

\* the failed attempts of a request that were not the last attempt allowed
FailedBeforeLast(q) ==
    { k \in 1..Len(q.outcomes) : q.outcomes[k].kind # "ok" /\ k # 3 }

\* C24: a fetch has waited once for each failed attempt other than attempt 3,
\* and for nothing else: after f failures followed by a success it has waited
\* f times, after exhaustion it has waited 2 times, and it is waiting exactly
\* when its latest attempt, not the third, has just failed.
C24_WaitsFollowFailuresButTheLast ==
    \A r \in Requests :
        /\ Len(req[r].waits) = Cardinality(FailedBeforeLast(req[r]))
        /\ req[r].fetch = "returned" => Len(req[r].waits) = Len(req[r].outcomes) - 1
        /\ req[r].fetch = "threw" => Len(req[r].waits) = 2
        /\ req[r].pc = "backoff" =>
               /\ Len(req[r].outcomes) \in {1, 2}
               /\ Len(req[r].waits) = Len(req[r].outcomes)
               /\ req[r].outcomes[Len(req[r].outcomes)].kind # "ok"
        /\ ( /\ req[r].fetch = "running"
             /\ req[r].outcomes # << >>
             /\ req[r].pc # "backoff" )
           => ( /\ req[r].pc = "fetching"
                /\ req[r].attempt = Len(req[r].outcomes) + 1 )

\* one fetch succeeded at attempt 3 after two waits, the other one exhausted
\* its attempts, the third by a non-ok response, after two waits
C24_Witness ==
    \E r \in Requests : \E x \in Requests \ {r} :
        /\ req[r].fetch = "returned"
        /\ Len(req[r].outcomes) = 3
        /\ Len(req[r].waits) = 2
        /\ req[x].fetch = "threw"
        /\ Len(req[x].waits) = 2
        /\ req[x].outcomes[3].kind = "nonok"

\* the requests whose cache lookup ended the given way
LookedUp(way) == { r \in Requests : req[r].lookup = way }

\* C25: hits counts the requests whose lookup was a hit and misses those
\* whose lookup was a miss, the requests served without a cache included:
\* each such request is counted once, in one counter, whatever the number of
\* its provider calls.  No step decreases a counter or adds more than one to
\* their sum, and a step that ends no lookup (an attempt, a retry, a set)
\* leaves them as they are.  /cache-stats reports these counters with total = hits +
\* misses, and the hit rate 0 when total is 0.
C25_EachLookupCountedOnce ==
    /\ [] ( /\ cacheStats.hits = Cardinality(LookedUp("hit"))
            /\ cacheStats.misses = Cardinality(LookedUp("miss"))
            /\ LookedUp("hit") \cap LookedUp("miss") = {}
            /\ ~cacheOn => \A r \in Requests : req[r].pc # "new" => r \in LookedUp("miss")
            /\ CacheStatsEndpoint.hits = cacheStats.hits
            /\ CacheStatsEndpoint.misses = cacheStats.misses
            /\ CacheStatsEndpoint.total = cacheStats.hits + cacheStats.misses
            /\ CacheStatsEndpoint.total = 0 => CacheStatsEndpoint.hitRate.hundredths = 0
            /\ CacheStatsEndpoint.total > 0 =>
                   LET exact   == cacheStats.hits * 10000
                       rounded == CacheStatsEndpoint.hitRate.hundredths * CacheStatsEndpoint.total
                   IN  /\ 2 * (rounded - exact) <= CacheStatsEndpoint.total
                       /\ 2 * (exact - rounded) <= CacheStatsEndpoint.total )
    /\ [][ /\ cacheStats'.hits >= cacheStats.hits
           /\ cacheStats'.misses >= cacheStats.misses
           /\ (cacheStats'.hits + cacheStats'.misses)
                  <= (cacheStats.hits + cacheStats.misses) + 1
           /\ (\A r \in Requests : req'[r].lookup = req[r].lookup) =>
                  cacheStats' = cacheStats ]_vars

\* a request that needed three provider calls was counted as one miss, the
\* request served from its entry as one hit: the hit rate is 50.00
C25_Witness ==
    /\ cacheStats = [hits |-> 1, misses |-> 1]
    /\ \E r \in Requests : Len(req[r].calls) = 3 /\ req[r].lookup = "miss"
    /\ CacheStatsEndpoint.hitRate = [fixed |-> TRUE, hundredths |-> 5000]

\* C26: recordFetchSuccess is called once for a fetch that succeeded, with
\* the number of the attempt that succeeded, which is the number of provider
\* calls the fetch made; it is not called for a fetch that is under way or
\* that exhausted its attempts, nor for a request served from the cache.
C26_FetchSuccessRecordedOnce ==
    \A r \in Requests :
        /\ req[r].fetch = "returned" =>
               /\ req[r].fetchSuccess = << Len(req[r].calls) >>
               /\ req[r].outcomes[req[r].fetchSuccess[1]].kind = "ok"
               /\ \A k \in 1..(req[r].fetchSuccess[1] - 1) : req[r].outcomes[k].kind # "ok"
        /\ req[r].fetch # "returned" => req[r].fetchSuccess = << >>
        /\ req[r].lookup = "hit" => req[r].fetchSuccess = << >>

\* a success was recorded with attempt 2, after one retry, and nothing was
\* recorded for the request that was then served from the cache
C26_Witness ==
    \E r \in Requests : \E x \in Requests \ {r} :
        /\ req[r].fetchSuccess = <<2>>
        /\ req[x].lookup = "hit"
        /\ req[x].hitWriter = r
        /\ req[x].fetchSuccess = << >>

\* C27: each attempt that is over has its own span, the k-th attempt the span
\* of attempt k, which records the outcome of that attempt and on which
\* span.end() ran exactly once, whatever the outcome and whichever the
\* attempt.
C27_OneSpanEndedOncePerAttempt ==
    \A r \in Requests :
        /\ Len(req[r].spans) = Len(req[r].outcomes)
        /\ \A k \in 1..Len(req[r].spans) :
               /\ req[r].spans[k].attempt = k
               /\ req[r].spans[k].error = (req[r].outcomes[k].kind # "ok")
               /\ req[r].spans[k].ends = 1

\* request r arrives in this step and its cache.get answers
LooksUp(r) ==
    /\ req[r].pc = "new"
    /\ req'[r].pc # "new"
    /\ req'[r].lookup # "raised"

\* C28: the expiry of an entry is the time of its set plus 30 seconds, and
\* only a set changes an entry: a hit leaves the entry and its expiry as they
\* are.  A request that arrives more than 30 seconds after the set of the
\* entry of its key misses and goes to the provider, and a payload served
\* from the cache is less than 30 seconds old.
C28_ExpiryIsFixedAtTheSet ==
    /\ [] ( /\ \A key \in DOMAIN store :
                   /\ store[key].expires = store[key].setAt + 30
                   /\ now - store[key].setAt > 30 => ~Truthy(RedisGet(key))
            /\ \A r \in Requests :
                   req[r].lookup = "hit" => req[r].arrivedAt - req[r].hitSetAt < 30 )
    /\ [][ /\ \A key \in DOMAIN store :
                  /\ key \in DOMAIN store'
                  /\ store'[key] # store[key] =>
                         /\ store'[key].setAt = now
                         /\ \E r \in Requests : req'[r].sets = req[r].sets + 1
           /\ \A r \in Requests :
                  ( /\ LooksUp(r)
                    /\ cacheOn
                    /\ cacheKey(req'[r].city) \in DOMAIN store
                    /\ now - store[cacheKey(req'[r].city)].setAt > 30 )
                  => ( /\ req'[r].lookup = "miss"
                       /\ req'[r].pc = "fetching"
                       /\ store' = store ) ]_vars

\* a request arrived 32 seconds after the entry of its key was written,
\* missed and called the provider
C28_Witness ==
    \E r \in Requests :
        /\ cacheOn
        /\ req[r].lookup = "miss"
        /\ req[r].calls # << >>
        /\ req[r].sets = 0
        /\ cacheKey(req[r].city) \in DOMAIN store
        /\ store[cacheKey(req[r].city)].writer # r
        /\ req[r].arrivedAt - store[cacheKey(req[r].city)].setAt > 30

\* the places of an event in what the shutdown did
Places(e) == { i \in 1..Len(shutdown.events) : shutdown.events[i] = e }

\* every `later` event done comes after every `earlier` event done
Before(earlier, later) ==
    \A i \in Places(earlier) : \A j \in Places(later) : i < j

\* C29: gracefulShutdown goes past its guard once at most, on the first
\* signal, and a later signal changes nothing.  Each thing it does is done
\* once at most and in a fixed order: close() on the servers, then, once
\* every server is closed, cache.disconnect() if there is a cache, then
\* process.exit; the exit follows the disconnect when it is rejected as when
\* it is resolved.
C29_ShutdownRunsOnceInOrder ==
    /\ [] ( /\ shutdown.runs <= 1
            /\ shutdown.runs = 1 <=> shutdown.signals # << >>
            /\ shutdown.isShuttingDown <=> shutdown.signals # << >>
            /\ shutdown.disconnects <= 1
            /\ ~cacheOn => shutdown.disconnects = 0
            /\ \A e \in { shutdown.events[i] : i \in 1..Len(shutdown.events) } :
                   Cardinality(Places(e)) = 1
            /\ Before("close http", "http closed")
            /\ Before("close https", "https closed")
            /\ Before("close http", "https closed")
            /\ Before("close https", "http closed")
            /\ Before("http closed", "disconnect")
            /\ Before("https closed", "disconnect")
            /\ Before("disconnect", "disconnected")
            /\ Before("disconnect", "disconnect failed")
            /\ Places("disconnect") # {} =>
                   /\ shutdown.httpServer = "closed"
                   /\ shutdown.httpsServer \in {"null", "closed"}
            /\ shutdown.exited <=> Places("exit") = {Len(shutdown.events)}
            /\ shutdown.exited =>
                   /\ shutdown.httpServer = "closed"
                   /\ shutdown.httpsServer \in {"null", "closed"}
                   /\ cacheOn =>
                          /\ shutdown.disconnects = 1
                          /\ Places("disconnected") \cup Places("disconnect failed") # {}
            /\ shutdown.disconnectFailed => shutdown.exited )
    /\ [][ ( /\ shutdown.isShuttingDown
             /\ Len(shutdown'.signals) > Len(shutdown.signals) )
           => shutdown' = [shutdown EXCEPT !.signals = shutdown'.signals] ]_vars

\* three signals arrived, a SIGTERM then a SIGINT first; the shutdown ran
\* once, both servers were closed, the disconnect was rejected, and the
\* process exited
C29_Witness ==
    /\ shutdown.exited
    /\ Len(shutdown.signals) = 3
    /\ shutdown.signals[1] = "SIGTERM"
    /\ shutdown.signals[2] = "SIGINT"
    /\ shutdown.httpsServer = "closed"
    /\ shutdown.disconnectFailed
    /\ shutdown.runs = 1

====
